---- MODULE Spec2Model ----
(***************************************************************************)
(* A model of lush (Lunar Shell): the tokenizer (lush_split_pipes,         *)
(* lush_split_args), the dispatcher (lush_run and the builtins), the       *)
(* pipeline executor (lush_execute_pipeline, lush_execute_command), the    *)
(* read-eval loop of main, the line editor (lush_read_line) and the exec   *)
(* and debug calls of the scripting bridge.                                *)
(*                                                                         *)
(* Spec follows the shell from prompt to prompt.  EditSpec follows the     *)
(* loop of lush_read_line key by key, from the empty buffer and from a     *)
(* buffer that is full or one short of full.  TokSpec follows the          *)
(* tokenizer on lines of many stages and of many arguments.                *)
(*                                                                         *)
(* A C string is a sequence of one-character strings; the line buffer is a *)
(* function from byte offsets 0..n to characters, NUL being the string     *)
(* terminator.  A pointer into the line buffer is its byte offset.         *)
(***************************************************************************)
EXTENDS Integers, Sequences, FiniteSets, TLC

\* ------------------------------------------------------------------------
\* Bounds of the model
\* ------------------------------------------------------------------------

\* longest line built character by character
MaxLen == 4

\* most words in a line built from whole words
MaxWords == 3

\* lush_read_line is followed for at most MaxKeys turns of its loop
MaxKeys == 3

\* a script calls exec at most MaxExecs times
MaxExecs == 1

\* a pipe holds at most PipeCap units of data
PipeCap == 1

\* ------------------------------------------------------------------------
\* Characters, strings and the line buffer
\* ------------------------------------------------------------------------

NUL == "NUL"

SPACE == " "

NEWLINE == "\n"

QUOTE == "\""

PIPE == "|"

DOLLAR == "$"

\* the characters lines are typed from
Alphabet == {"a", "b", SPACE, QUOTE, PIPE, DOLLAR}

\* the line buffer as lush_read_line returns it: calloc(BUFFER_SIZE) zero-fills
\* the block, so every byte after the text is NUL.  The model keeps two of them.
LineBuffer(text) ==
    [p \in 0..(Len(text) + 1) |-> IF p < Len(text) THEN text[p + 1] ELSE NUL]

\* reading byte p of the line buffer: the bytes of the zero-filled block after
\* the modelled prefix are NUL
Rd(mem, p) == IF p \in DOMAIN mem THEN mem[p] ELSE NUL

\* writing byte p of the line buffer
Wr(mem, p, c) == [mem EXCEPT ![p] = c]

\* the first offset at or after s whose byte is in stop.  The bytes after the
\* modelled prefix are NUL, so with NUL in stop there is one.
FirstIn(mem, s, stop) ==
    CHOOSE p \in s..(s + Cardinality(DOMAIN mem)) :
       /\ Rd(mem, p) \in stop
       /\ \A q \in s..(p - 1) : Rd(mem, q) \notin stop

\* the first offset at or after s whose byte is not in skip, NUL not being
\* in skip
FirstNotIn(mem, s, skip) ==
    CHOOSE p \in s..(s + Cardinality(DOMAIN mem)) :
       /\ Rd(mem, p) \notin skip
       /\ \A q \in s..(p - 1) : Rd(mem, q) \in skip

\* the offset of the terminator of the C string that starts at p
StrEnd(mem, p) == FirstIn(mem, p, {NUL})

\* the C string that starts at offset p: the bytes up to the first NUL
CStr(mem, p) == [k \in 1..(StrEnd(mem, p) - p) |-> Rd(mem, p + k - 1)]

\* ------------------------------------------------------------------------
\* The environment
\* ------------------------------------------------------------------------

\* an argument vector entry: a pointer into the line buffer, a pointer to an
\* environment value, or NULL
BufPtr(p) == [k |-> "buf", p |-> p, v |-> <<>>]

EnvPtr(v) == [k |-> "env", p |-> 0, v |-> v]

NULL == [k |-> "null", p |-> 0, v |-> <<>>]

\* the environment: the variable a is set, every other name is unset
getenv(name) == IF name = <<"a">> THEN EnvPtr(<<"v", "a", "l">>) ELSE NULL

\* ------------------------------------------------------------------------
\* lush_split_pipes
\* ------------------------------------------------------------------------

\* char **commands = calloc(16, sizeof(char *)): the slots of the array of
\* stage pointers
CommandsSlots == 16

\* char **args = calloc(128, sizeof(char *)): the slots of the argument
\* vector of one stage
ArgsSlots == 128

\* strtok: skip the leading delimiters
SkipDelims(mem, s) == FirstNotIn(mem, s, {PIPE})

\* strtok: the first delimiter or terminator at or after s
TokEnd(mem, s) == FirstIn(mem, s, {PIPE, NUL})

\* strtok(.., "|") resumed at offset s: the token found (tok < 0 when none),
\* the buffer with the token's delimiter overwritten, and the saved position
strtok(mem, s) ==
    LET b == SkipDelims(mem, s)
        e == TokEnd(mem, b)
    IN  IF Rd(mem, b) = NUL
        THEN [tok |-> -1, mem |-> mem, save |-> b]
        ELSE IF Rd(mem, e) = PIPE
             THEN [tok |-> b, mem |-> Wr(mem, e, NUL), save |-> e + 1]
             ELSE [tok |-> b, mem |-> mem, save |-> e]

\* one call of strtok and, when it found a token, the turn of the
\* while (command) loop of lush_split_pipes that stores it
TokTurn(t) ==
    LET n == strtok(t.mem, t.save)
    IN  [tok |-> n.tok, mem |-> n.mem, save |-> n.save,
         commands |-> IF n.tok < 0 THEN t.commands
                      ELSE Append(t.commands, n.tok)]

RECURSIVE TokTurns(_, _)
\* up to n turns of the loop: it ends when strtok finds no token
TokTurns(t, n) ==
    IF n = 0 \/ t.tok < 0 THEN t
    ELSE IF n = 1 THEN TokTurn(t)
    ELSE TokTurns(TokTurns(t, n \div 2), n - (n \div 2))

\* the while (command) loop of lush_split_pipes.  Every token takes a byte
\* of the buffer, so the loop makes no more turns than the buffer has bytes.
TokLoop(mem, s, commands) ==
    LET t == TokTurns([tok |-> 0, mem |-> mem, save |-> s,
                       commands |-> commands], Cardinality(DOMAIN mem))
    IN  [mem |-> t.mem, commands |-> t.commands]

\* while (*commands[i] == ' ' || *commands[i] == '\n') commands[i]++
TrimLeft(mem, c) == FirstNotIn(mem, c, {SPACE, NEWLINE})

RECURSIVE TrimRight(_, _, _)
\* while (*end_of_str == ' ' || *end_of_str == '\n') *end_of_str-- = '\0'.
\* A stage of spaces only has end_of_str start below commands[i]; in the first
\* stage it walks below the buffer, where it reads the byte hdr of the
\* allocator's block header: under is set by that read, smash by the write
\* that follows when the byte is a space or a newline.
TrimRight(mem, e, hdr) ==
    IF e < 0
    THEN [mem |-> mem, under |-> TRUE, smash |-> hdr \in {SPACE, NEWLINE}]
    ELSE IF mem[e] \in {SPACE, NEWLINE}
         THEN TrimRight(Wr(mem, e, NUL), e - 1, hdr)
         ELSE [mem |-> mem, under |-> FALSE, smash |-> FALSE]

\* one turn of the trim loop of lush_split_pipes: r.commands holds the
\* pointers of the stages trimmed so far, so the turn is that of the stage
\* after them
TrimTurn(r, commands, hdr) ==
    LET c == TrimLeft(r.mem, commands[Len(r.commands) + 1])
        t == TrimRight(r.mem, StrEnd(r.mem, c) - 1, hdr)
    IN  [mem |-> t.mem,
         commands |-> Append(r.commands, c),
         under |-> r.under \/ t.under,
         smash |-> r.smash \/ t.smash]

RECURSIVE TrimTurns(_, _, _, _)
\* up to n turns of the trim loop: it ends after the last stage
TrimTurns(r, commands, hdr, n) ==
    IF n = 0 \/ Len(r.commands) >= Len(commands) THEN r
    ELSE IF n = 1 THEN TrimTurn(r, commands, hdr)
    ELSE TrimTurns(TrimTurns(r, commands, hdr, n \div 2), commands, hdr,
                   n - (n \div 2))

\* the trim loop of lush_split_pipes: for (int i = 0; i < pos; i++)
TrimLoop(r, commands, hdr) == TrimTurns(r, commands, hdr, Len(commands))

\* lush_split_pipes(line): the buffer as it leaves it and the stage pointers.
\* commands[pos++] = command is not bounded: over tells that the token loop
\* has stored more pointers than the array has slots.
lush_split_pipes(mem, hdr) ==
    LET t == TokLoop(mem, 0, <<>>)
        r == TrimLoop([mem |-> t.mem, commands |-> <<>>,
                       under |-> FALSE, smash |-> FALSE],
                      t.commands, hdr)
    IN  [mem |-> r.mem, commands |-> r.commands, under |-> r.under,
         smash |-> r.smash, over |-> Len(t.commands) > CommandsSlots]

\* ------------------------------------------------------------------------
\* lush_split_args
\* ------------------------------------------------------------------------

\* one iteration of for (j = 0; commands[i][j]; j++) on the stage at offset c,
\* the j++ of the loop header included
ArgsStep(c, s) ==
    LET ch == Rd(s.mem, c + s.j)
    IN  IF ch = QUOTE /\ ~s.inside_string
        THEN LET m1 == Wr(s.mem, c + s.j, NUL)
                 j1 == s.j + 1
             IN  IF Rd(m1, c + j1) # QUOTE
                 THEN [s EXCEPT !.mem = m1, !.inside_string = TRUE,
                                !.current_token = BufPtr(c + j1), !.j = j1 + 1]
                 ELSE [s EXCEPT !.mem = Wr(m1, c + j1, NUL),
                                !.current_token = BufPtr(c + j1 + 1),
                                !.j = j1 + 2]
        ELSE IF s.inside_string
        THEN IF ch = QUOTE
             THEN [s EXCEPT !.inside_string = FALSE,
                            !.mem = Wr(s.mem, c + s.j, NUL),
                            !.args = Append(s.args, s.current_token),
                            !.current_token = NULL,
                            !.j = s.j + 1]
             ELSE [s EXCEPT !.j = s.j + 1]
        ELSE IF ch = SPACE
        THEN [s EXCEPT !.args = IF s.current_token # NULL
                                   /\ Rd(s.mem, s.current_token.p) # SPACE
                                THEN Append(s.args, s.current_token)
                                ELSE s.args,
                       !.current_token = BufPtr(c + s.j + 1),
                       !.mem = Wr(s.mem, c + s.j, NUL),
                       !.j = s.j + 1]
        ELSE IF ch = DOLLAR /\ Rd(s.mem, c + s.j + 1) # NUL
                /\ Rd(s.mem, c + s.j + 1) # SPACE
        THEN LET e == StrEnd(s.mem, c + s.j + 1)
             IN  [s EXCEPT !.args = Append(s.args,
                                           getenv(CStr(s.mem, c + s.j + 1))),
                           !.current_token = BufPtr(e + 1),
                           !.j = (e - c) + 1]
        ELSE [s EXCEPT !.j = s.j + 1]

RECURSIVE ArgsLoop(_, _, _)
\* up to n iterations of the for loop over the characters of the stage at
\* offset c: the loop ends when commands[i][j] is the terminator
ArgsLoop(c, s, n) ==
    IF n = 0 \/ Rd(s.mem, c + s.j) = NUL THEN s
    ELSE IF n = 1 THEN ArgsStep(c, s)
    ELSE ArgsLoop(c, ArgsLoop(c, s, n \div 2), n - (n \div 2))

\* the for loop over the characters of the stage at offset c.  Every
\* iteration moves j forward and the bytes after the modelled ones are NUL,
\* so the loop makes no more iterations than the buffer has bytes.
ArgsScan(c, s) == ArgsLoop(c, s, Cardinality(DOMAIN s.mem))

\* the body of the outer loop for one stage: the scan, then the last token
SplitStage(mem, c) ==
    LET s == ArgsScan(c, [mem |-> mem, j |-> 0, inside_string |-> FALSE,
                          current_token |-> BufPtr(c), args |-> <<>>])
    IN  [mem |-> s.mem,
         inside_string |-> s.inside_string,
         last |-> c + s.j,
         args |-> IF ~s.inside_string /\ s.current_token # NULL
                     /\ Rd(s.mem, s.current_token.p) # SPACE
                  THEN Append(s.args, s.current_token)
                  ELSE s.args]

\* one turn of for (i = 0; commands[i]; i++) of lush_split_args:
\* t.command_args holds the vectors of the stages split so far, so the turn
\* is that of the stage after them.  args[pos++] = .. is not bounded: over
\* tells that the scan of the stage has stored more arguments than its vector
\* has slots.  done tells that the function returns: from inside the loop
\* with status -1, or after the last stage with the number of stages.
SplitTurn(t, commands) ==
    LET r == SplitStage(t.mem, commands[Len(t.command_args) + 1])
    IN  IF Len(r.args) > ArgsSlots
        THEN [mem |-> r.mem, command_args |-> t.command_args,
              status |-> Len(t.command_args), over |-> TRUE, done |-> TRUE]
        ELSE IF r.inside_string
        THEN [mem |-> r.mem, command_args |-> t.command_args,
              status |-> -1, over |-> FALSE, done |-> TRUE]
        ELSE [mem |-> r.mem, command_args |-> Append(t.command_args, r.args),
              status |-> Len(t.command_args) + 1, over |-> FALSE,
              done |-> Len(t.command_args) + 1 = Len(commands)]

RECURSIVE SplitTurns(_, _, _)
\* up to n turns of the loop over the stages
SplitTurns(t, commands, n) ==
    IF n = 0 \/ t.done THEN t
    ELSE IF n = 1 THEN SplitTurn(t, commands)
    ELSE SplitTurns(SplitTurns(t, commands, n \div 2), commands,
                    n - (n \div 2))

\* for (i = 0; commands[i]; i++) of lush_split_args
SplitLoop(mem, commands) ==
    SplitTurns([mem |-> mem, command_args |-> <<>>, status |-> 0,
                over |-> FALSE, done |-> commands = <<>>],
               commands, Len(commands))

\* lush_split_args(commands, &status)
lush_split_args(mem, commands) == SplitLoop(mem, commands)

\* ------------------------------------------------------------------------
\* The lines the shell is given
\* ------------------------------------------------------------------------

cd == <<"c", "d">>

help == <<"h", "e", "l", "p">>

exit == <<"e", "x", "i", "t">>

time == <<"t", "i", "m", "e">>

lush == <<"l", "u", "s", "h">>

\* char *builtin_strs[]
builtin_strs == <<cd, help, exit, time, lush>>

\* int (*builtin_func[])(lua_State *, char ***)
builtin_func == <<"lush_cd", "lush_help", "lush_exit", "lush_time", "lush_lush">>

lush_num_builtins == Len(builtin_strs)

\* the words of the word-built lines: the builtin names and a program name
Words == {builtin_strs[n] : n \in 1..lush_num_builtins} \cup {<<"a">>}

RECURSIVE Join(_, _)
\* the words ws joined by the separators seps
Join(ws, seps) ==
    IF Len(ws) = 1 THEN ws[1]
    ELSE ws[1] \o <<seps[1]>> \o Join(Tail(ws), Tail(seps))

CharLines == UNION {[1..n -> Alphabet] : n \in 0..MaxLen}

WordLines ==
    UNION {{Join(ws, seps) : ws \in [1..n -> Words],
                             seps \in [1..(n - 1) -> {SPACE, PIPE}]} :
           n \in 1..MaxWords}

Lines == CharLines \cup WordLines

\* the byte in front of the line buffer, in the allocator's block header
HdrBytes == {"h", SPACE}

\* ------------------------------------------------------------------------
\* File descriptors and processes
\* ------------------------------------------------------------------------

STDIN_FILENO == [pipe |-> -1, end |-> "stdin"]

STDOUT_FILENO == [pipe |-> -1, end |-> "stdout"]

\* pipes[i][0] and pipes[i][1]
PipeRd(i) == [pipe |-> i, end |-> "r"]

PipeWr(i) == [pipe |-> i, end |-> "w"]

\* ------------------------------------------------------------------------
\* The state of the shell process
\* ------------------------------------------------------------------------

VARIABLES
    pc,            \* where the shell process is
    line,          \* the text lush_read_line returned
    mem,           \* the line buffer
    under,         \* lush_split_pipes has read the byte below the buffer
    commands,      \* char **commands of main: the stage pointers
    args,          \* char ***args of main: one argument vector per stage
    status,        \* int status of main
    off,           \* how far args[0] is advanced past its first slot
    num_commands,  \* the count given to lush_run and lush_execute_pipeline
    frames,        \* the calls of lush_time waiting for lush_run to return
    builtin,       \* the builtin handlers called for this line, in order
    rc,            \* the value lush_run returns
    i,             \* the loop counter of lush_execute_pipeline
    fds,           \* the pipe descriptors open in the shell process
    opened,        \* the pipe descriptors lush_execute_pipeline has opened
    closelog,      \* the descriptors passed to close by the shell, in order
    children,      \* the processes forked for this line, in order
    pipebuf,       \* the units of data each pipe holds, pipe 0 first
    out,           \* what has been written to the terminal for this line
    cwd,           \* the working directory of the shell process
    exit_status,   \* the status the shell process has exited with
    fault,         \* the undefined behaviour the shell process has run into
    termios,       \* the local modes (c_lflag) of the terminal
    orig_termios,  \* struct termios orig_termios of lush_read_line
    pos,           \* int pos of lush_read_line: the cursor
    eof,           \* standard input is at its end: getchar returns EOF
    keys,          \* the turns the loop of lush_read_line has made
    saved,         \* the callers' variables while execute_command runs
    debug_mode,    \* static bool debug_mode of the scripting bridge
    history,       \* the lines lush_push_history was given for this line
    debuglog,      \* the Executed: lines printed for this line
    execs          \* the calls of exec the script has made

vars == <<pc, line, mem, under, commands, args, status, off, num_commands,
          frames, builtin, rc, i, fds, opened, closelog, children, pipebuf,
          out, cwd,
          exit_status, fault, termios, orig_termios, pos, eof, keys, saved,
          debug_mode, history, debuglog, execs>>

\* the variables lush_execute_pipeline works on
pipevars == <<i, fds, opened, closelog, children, pipebuf>>

\* the variables of the tokenizer
tokvars == <<line, mem, under, commands, args, status>>

\* the variables of lush_read_line
editvars == <<termios, orig_termios, pos, eof, keys>>

\* the variables of the scripting bridge
scriptvars == <<saved, debug_mode, history, debuglog, execs>>

Dir(kind, name) == [dir |-> kind, name |-> name]

\* the local modes of a terminal in canonical mode with echo
Cooked == {"ICANON", "ECHO", "ISIG"}

\* static void set_raw_mode(struct termios *orig_termios): the modes it sets,
\* raw.c_lflag &= ~(ICANON | ECHO)
set_raw_mode(t) == t \ {"ICANON", "ECHO"}

\* static void reset_terminal_mode(struct termios *orig_termios): the modes
\* it sets
reset_terminal_mode(orig) == orig

\* a line written to the terminal by the shell process itself
Shell(text) == [by |-> -1, text |-> text]

\* what the program of stage s has written to the terminal
Program(s) == [by |-> s, text |-> "output"]

\* the string an argument vector entry points at
ArgStr(e) == IF e.k = "buf" THEN CStr(mem, e.p) ELSE e.v

\* commands[s] as the callee sees it: args[0] is advanced by off, and
\* the slots after the last stage of the zero-filled array are NULL
HasStage(s) == s < Len(args)

StageArgv(s) ==
    IF s = 0 THEN SubSeq(args[1], off + 1, Len(args[1])) ELSE args[s + 1]

\* commands[s][k]: the slots after the last argument are NULL
Entry(s, k) ==
    IF k < Len(StageArgv(s)) THEN StageArgv(s)[k + 1] ELSE NULL

RECURSIVE UpToNull(_)
\* the entries of an argument vector before its first NULL entry
UpToNull(v) ==
    IF v = <<>> \/ v[1] = NULL THEN <<>> ELSE <<v[1]>> \o UpToNull(Tail(v))

\* the argument strings that execvp(args[0], args) hands the program
ExecArgv(s) ==
    LET v == UpToNull(StageArgv(s)) IN [k \in 1..Len(v) |-> ArgStr(v[k])]

Init ==
    /\ pc = "prompt"
    /\ line = <<>>
    /\ mem = LineBuffer(<<>>)
    /\ under = FALSE
    /\ commands = <<>>
    /\ args = <<>>
    /\ status = 0
    /\ off = 0
    /\ num_commands = 0
    /\ frames = 0
    /\ builtin = <<>>
    /\ rc = 1
    /\ i = 0
    /\ fds = {}
    /\ opened = {}
    /\ closelog = <<>>
    /\ children = <<>>
    /\ pipebuf = <<>>
    /\ out = <<>>
    /\ cwd = Dir("start", <<>>)
    /\ exit_status = -1
    /\ fault = "none"
    /\ termios = Cooked
    /\ orig_termios = Cooked
    /\ pos = 0
    /\ eof = FALSE
    /\ keys = 0
    /\ saved = <<>>
    /\ debug_mode = FALSE
    /\ history = <<>>
    /\ debuglog = <<>>
    /\ execs = 0

\* ------------------------------------------------------------------------
\* main: the read-eval loop
\* ------------------------------------------------------------------------

\* char *line = lush_read_line(): the call, up to the loop that reads the
\* keys.  set_raw_mode saves the modes of the terminal and clears two of them.
EnterReadLine ==
    /\ pc = "prompt"
    /\ pc' = "lush_read_line"
    /\ orig_termios' = termios
    /\ termios' = set_raw_mode(termios)
    /\ UNCHANGED scriptvars
    /\ UNCHANGED <<tokvars, off, num_commands, frames, builtin, rc, pipevars,
                   out, cwd, exit_status, fault, pos, eof, keys>>

\* the loop of lush_read_line as main sees it: keys are read until Enter, the
\* buffer then holds the text typed, and the function resets the terminal
\* and returns the buffer
ReadLine ==
    /\ pc = "lush_read_line"
    /\ \E text \in Lines :
          /\ line' = text
          /\ mem' = LineBuffer(text)
    /\ termios' = reset_terminal_mode(orig_termios)
    /\ pc' = "read"
    /\ UNCHANGED scriptvars
    /\ UNCHANGED <<under, commands, args, status, off, num_commands, frames,
                   builtin, rc, pipevars, out, cwd, exit_status, fault,
                   orig_termios, pos, eof, keys>>

\* if (line == NULL || strlen(line) == 0) { free(line); continue; }
CheckLine ==
    /\ pc = "read"
    /\ IF Len(line) = 0
       THEN pc' = "prompt"
       ELSE pc' = "split_pipes"
    /\ UNCHANGED editvars
    /\ UNCHANGED scriptvars
    /\ UNCHANGED <<tokvars, off, num_commands, frames, builtin, rc, pipevars,
                   out, cwd, exit_status, fault>>

\* char **commands = lush_split_pipes(line)
SplitPipes ==
    /\ pc = "split_pipes"
    /\ \E hdr \in HdrBytes :
          LET r == lush_split_pipes(mem, hdr)
          IN  IF r.over
              THEN /\ pc' = "fault"
                   /\ fault' = "lush_split_pipes writes past the commands array"
                   /\ UNCHANGED <<mem, commands, under>>
              ELSE IF r.smash
              THEN /\ pc' = "fault"
                   /\ fault' = "lush_split_pipes writes below the line buffer"
                   /\ UNCHANGED <<mem, commands, under>>
              ELSE /\ pc' = "split_args"
                   /\ mem' = r.mem
                   /\ commands' = r.commands
                   /\ under' = r.under
                   /\ fault' = fault
    /\ UNCHANGED editvars
    /\ UNCHANGED scriptvars
    /\ UNCHANGED <<line, args, status, off, num_commands, frames, builtin, rc,
                   pipevars, out, cwd, exit_status>>

RECURSIVE ScanPast(_, _, _, _)
\* the for loop of lush_split_args reads, for some stage from stage n on, a
\* byte after offset end
ScanPast(m, cs, n, end) ==
    IF n > Len(cs) THEN FALSE
    ELSE LET r == SplitStage(m, cs[n])
         IN  \/ r.last > end
             \/ ~r.inside_string /\ ScanPast(r.mem, cs, n + 1, end)

\* char ***args = lush_split_args(commands, &status).  The line of main is a
\* zero-filled block; the line of execute_command is the string of the
\* script, and what a scan that runs past its terminator reads there is not
\* defined: zero bytes, or anything else.  Nor is what the outer loop reads in
\* commands[CommandsSlots] when every slot of commands holds a stage: NULL,
\* which ends the loop, or anything else.
SplitArgs ==
    /\ pc = "split_args"
    /\ \E zero \in BOOLEAN :
          IF saved # <<>> /\ ScanPast(mem, commands, 1, Len(line)) /\ ~zero
          THEN /\ pc' = "fault"
               /\ fault' = "lush_split_args reads past the string of the script"
               /\ UNCHANGED <<mem, args, status>>
          ELSE IF Len(commands) = CommandsSlots /\ ~zero
          THEN /\ pc' = "fault"
               /\ fault' = "lush_split_args reads past the commands array"
               /\ UNCHANGED <<mem, args, status>>
          ELSE LET r == lush_split_args(mem, commands)
               IN  IF r.over
                   THEN /\ pc' = "fault"
                        /\ fault' = "lush_split_args writes past an args array"
                        /\ UNCHANGED <<mem, args, status>>
                   ELSE /\ mem' = r.mem
                        /\ args' = r.command_args
                        /\ status' = r.status
                        /\ pc' = "dispatch"
                        /\ UNCHANGED fault
    /\ UNCHANGED editvars
    /\ UNCHANGED scriptvars
    /\ UNCHANGED <<line, under, commands, off, num_commands, frames, builtin,
                   rc, pipevars, out, cwd, exit_status>>

\* if (status == -1) fprintf(stderr, ..) else if (lush_run(L, args, status) ..
Dispatch ==
    /\ pc = "dispatch"
    /\ IF status = -1
       THEN /\ out' = Append(out, Shell("lush: Expected end of quoted string"))
            /\ pc' = "free"
            /\ UNCHANGED num_commands
       ELSE /\ num_commands' = status
            /\ pc' = "lush_run"
            /\ UNCHANGED out
    /\ UNCHANGED editvars
    /\ UNCHANGED scriptvars
    /\ UNCHANGED <<tokvars, off, frames, builtin, rc, pipevars, cwd,
                   exit_status, fault>>

\* lush_run returns to main: } else if (lush_run(..) == 0) { exit(1); }
MainReturn ==
    /\ pc = "ret"
    /\ frames = 0
    /\ IF rc = 0
       THEN /\ pc' = "exited"
            /\ exit_status' = 1
       ELSE /\ pc' = "free"
            /\ UNCHANGED exit_status
    /\ UNCHANGED editvars
    /\ UNCHANGED scriptvars
    /\ UNCHANGED <<tokvars, off, num_commands, frames, builtin, rc, pipevars,
                   out, cwd, fault>>

\* the frees at the end of the loop body, and back to the prompt.  What the
\* loop body has computed for the line is dead from here on and is set back
\* to its initial value.
FreeLine ==
    /\ pc = "free"
    /\ saved = <<>>
    /\ pc' = "prompt"
    /\ line' = <<>>
    /\ mem' = LineBuffer(<<>>)
    /\ under' = FALSE
    /\ commands' = <<>>
    /\ args' = <<>>
    /\ status' = 0
    /\ off' = 0
    /\ num_commands' = 0
    /\ builtin' = <<>>
    /\ rc' = 1
    /\ i' = 0
    /\ opened' = {}
    /\ closelog' = <<>>
    /\ children' = <<>>
    /\ pipebuf' = <<>>
    /\ out' = <<>>
    /\ history' = <<>>
    /\ debuglog' = <<>>
    /\ execs' = 0
    /\ UNCHANGED editvars
    /\ UNCHANGED <<frames, fds, cwd, exit_status, fault, saved, debug_mode>>

\* ------------------------------------------------------------------------
\* lush_run and the builtins
\* ------------------------------------------------------------------------

\* Matches with the loop of lush_run started at the second builtin
Matches_from_second ==
    {n \in 2..lush_num_builtins : ArgStr(Entry(0, 0)) = builtin_strs[n]}

\* the builtins whose name equals commands[0][0]
Matches == {n \in 1..lush_num_builtins : ArgStr(Entry(0, 0)) = builtin_strs[n]}

\* the first of them: the for loop of lush_run returns at the first match
FirstMatch == CHOOSE n \in Matches : \A m \in Matches : n <= m

\* int lush_run(lua_State *L, char ***commands, int num_commands)
lush_run ==
    /\ pc = "lush_run"
    /\ IF ~HasStage(0)
       THEN \* commands[0] is NULL and commands[0][0] reads through it
            /\ pc' = "fault"
            /\ fault' = "lush_run reads commands[0][0] through NULL"
            /\ UNCHANGED <<rc, builtin>>
       ELSE IF Entry(0, 0) = NULL
       THEN /\ rc' = 1
            /\ pc' = "ret"
            /\ UNCHANGED <<fault, builtin>>
       ELSE IF Matches # {}
       THEN /\ pc' = builtin_func[FirstMatch]
            /\ builtin' = Append(builtin, builtin_func[FirstMatch])
            /\ UNCHANGED <<fault, rc>>
       ELSE /\ pc' = "lush_execute_pipeline"
            /\ UNCHANGED <<fault, rc, builtin>>
    /\ UNCHANGED editvars
    /\ UNCHANGED scriptvars
    /\ UNCHANGED <<tokvars, off, num_commands, frames, pipevars, out, cwd,
                   exit_status>>

\* the file system: realpath resolves the path a, a directory, and no other
realpath(path) == IF path = <<"a">> THEN Dir("path", path) ELSE Dir("none", <<>>)

\* int lush_cd(lua_State *L, char ***args): getpwuid finds the user or not,
\* chdir changes the directory or fails.  No line of the model holds a tilde,
\* so the path is args[0][1] as it stands.
lush_cd ==
    /\ pc = "lush_cd"
    /\ \E pw \in BOOLEAN, changed \in BOOLEAN :
          IF ~pw
          THEN /\ out' = Append(out, Shell("retrieve home dir"))
               /\ rc' = 0
               /\ UNCHANGED cwd
          ELSE IF Entry(0, 1) = NULL
          THEN /\ rc' = 1
               /\ IF changed
                  THEN cwd' = Dir("home", <<>>) /\ UNCHANGED out
                  ELSE out' = Append(out, Shell("lush: cd")) /\ UNCHANGED cwd
          ELSE IF realpath(ArgStr(Entry(0, 1))) = Dir("none", <<>>)
          THEN /\ out' = Append(out, Shell("realpath"))
               /\ rc' = 1
               /\ UNCHANGED cwd
          ELSE /\ rc' = 1
               /\ IF changed
                  THEN cwd' = realpath(ArgStr(Entry(0, 1))) /\ UNCHANGED out
                  ELSE out' = Append(out, Shell("lush: cd")) /\ UNCHANGED cwd
    /\ pc' = "ret"
    /\ UNCHANGED editvars
    /\ UNCHANGED scriptvars
    /\ UNCHANGED <<tokvars, off, num_commands, frames, builtin, pipevars,
                   exit_status, fault>>

\* int lush_help(lua_State *L, char ***args)
lush_help ==
    /\ pc = "lush_help"
    /\ out' = Append(out, Shell("Available commands:"))
    /\ rc' = 1
    /\ pc' = "ret"
    /\ UNCHANGED editvars
    /\ UNCHANGED scriptvars
    /\ UNCHANGED <<tokvars, off, num_commands, frames, builtin, pipevars, cwd,
                   exit_status, fault>>

\* int lush_exit(lua_State *L, char ***args) { return 0; }
lush_exit ==
    /\ pc = "lush_exit"
    /\ rc' = 0
    /\ pc' = "ret"
    /\ UNCHANGED editvars
    /\ UNCHANGED scriptvars
    /\ UNCHANGED <<tokvars, off, num_commands, frames, builtin, pipevars, out,
                   cwd, exit_status, fault>>

RECURSIVE CountStages(_)
\* int i = 0; while (args[i++]) { ; } started at stage n: the value i ends with
CountStages(n) == IF HasStage(n) THEN CountStages(n + 1) ELSE n + 1

\* int lush_time(lua_State *L, char ***args), up to its call of lush_run
lush_time ==
    /\ pc = "lush_time"
    /\ off' = off + 1
    /\ num_commands' = CountStages(0)
    /\ frames' = frames + 1
    /\ pc' = "lush_run"
    /\ UNCHANGED editvars
    /\ UNCHANGED scriptvars
    /\ UNCHANGED <<tokvars, builtin, rc, pipevars, out, cwd, exit_status,
                   fault>>

\* lush_time after lush_run has returned: the Time line, args[0]--, return rc
lush_time_return ==
    /\ pc = "ret"
    /\ frames > 0
    /\ out' = Append(out, Shell("Time: milliseconds"))
    /\ off' = off - 1
    /\ frames' = frames - 1
    /\ UNCHANGED editvars
    /\ UNCHANGED scriptvars
    /\ UNCHANGED <<pc, tokvars, num_commands, builtin, rc, pipevars, cwd,
                   exit_status, fault>>

\* access(script, F_OK) of lua_load_script: the file a exists, in the working
\* directory or in the scripts directory, and no other
access(script) == script = <<"a">>

\* the command lines the script gives to exec
ScriptLines ==
    {<<>>, <<"a">>, <<"a", SPACE, "b">>, <<"a", PIPE, "b">>, <<QUOTE, "a">>,
     <<DOLLAR, "a">>}

\* int lush_lush(lua_State *L, char ***args): args[0]++, then lua_load_script
\* reports that there is no such script, or runs it
lush_lush ==
    /\ pc = "lush_lush"
    /\ IF Entry(0, 1) # NULL /\ access(ArgStr(Entry(0, 1)))
       THEN /\ pc' = "script"
            /\ off' = off + 1
            /\ UNCHANGED <<out, rc>>
       ELSE /\ out' = Append(out, Shell("[C] Script not found"))
            /\ rc' = 1
            /\ pc' = "ret"
            /\ UNCHANGED off
    /\ UNCHANGED editvars
    /\ UNCHANGED scriptvars
    /\ UNCHANGED <<tokvars, num_commands, frames, builtin, pipevars, cwd,
                   exit_status, fault>>

\* static int l_debug(lua_State *L): the script calls debug(b)
l_debug ==
    /\ pc = "script"
    /\ \E b \in BOOLEAN : debug_mode' = b
    /\ UNCHANGED editvars
    /\ UNCHANGED <<pc, tokvars, off, num_commands, frames, builtin, rc,
                   pipevars, out, cwd, exit_status, fault, saved, history,
                   debuglog, execs>>

\* the variables execute_command and what it calls work on, as a record
Frame ==
    [line |-> line, mem |-> mem, under |-> under, commands |-> commands,
     args |-> args, status |-> status, off |-> off,
     num_commands |-> num_commands, frames |-> frames, builtin |-> builtin]

\* static int l_execute_command(lua_State *L): the script calls exec(text),
\* and execute_command starts on the string of the script with variables of
\* its own
l_execute_command ==
    /\ pc = "script"
    /\ execs < MaxExecs
    /\ execs' = execs + 1
    /\ saved' = Append(saved, Frame)
    /\ \E text \in ScriptLines :
          /\ line' = text
          /\ mem' = LineBuffer(text)
    /\ under' = FALSE
    /\ commands' = <<>>
    /\ args' = <<>>
    /\ status' = 0
    /\ off' = 0
    /\ num_commands' = 0
    /\ frames' = 0
    /\ builtin' = <<>>
    /\ pc' = "split_pipes"
    /\ UNCHANGED editvars
    /\ UNCHANGED <<rc, pipevars, out, cwd, exit_status, fault, debug_mode,
                   history, debuglog>>

\* execute_command after lush_run: the frees, lush_push_history(line) and the
\* return of status; then l_execute_command prints the Executed: line when
\* debug_mode is set.  Both read the string where the tokenizer has worked.
\* What the line has forked and closed ends with the call.
ExecReturn ==
    /\ pc = "free"
    /\ saved # <<>>
    /\ history' = Append(history, CStr(mem, 0))
    /\ debuglog' = IF debug_mode
                   THEN Append(debuglog, [line |-> CStr(mem, 0),
                                          rc |-> status # -1])
                   ELSE debuglog
    /\ LET f == saved[Len(saved)]
       IN  /\ line' = f.line
           /\ mem' = f.mem
           /\ under' = f.under
           /\ commands' = f.commands
           /\ args' = f.args
           /\ status' = f.status
           /\ off' = f.off
           /\ num_commands' = f.num_commands
           /\ frames' = f.frames
           /\ builtin' = f.builtin
    /\ saved' = SubSeq(saved, 1, Len(saved) - 1)
    /\ i' = 0
    /\ opened' = {}
    /\ closelog' = <<>>
    /\ children' = <<>>
    /\ pipebuf' = <<>>
    /\ pc' = "script"
    /\ UNCHANGED editvars
    /\ UNCHANGED <<rc, fds, out, cwd, exit_status, fault, debug_mode, execs>>

\* the script ends and lua_load_script returns: args[0]--; return 1;  The
\* scripts of the model switch the debug messages off before they end.
ScriptEnd ==
    /\ pc = "script"
    /\ ~debug_mode
    /\ off' = off - 1
    /\ rc' = 1
    /\ pc' = "ret"
    /\ UNCHANGED editvars
    /\ UNCHANGED scriptvars
    /\ UNCHANGED <<tokvars, num_commands, frames, builtin, pipevars, out, cwd,
                   exit_status, fault>>

\* ------------------------------------------------------------------------
\* lush_execute_pipeline and lush_execute_command
\* ------------------------------------------------------------------------

\* int input_fd of stage s of n: the loop over the first n - 1 stages, then
\* the last or only command
input_fd(s, n) ==
    IF s < n - 1
    THEN IF s = 0 THEN STDIN_FILENO ELSE PipeRd(s - 1)
    ELSE IF n > 1 THEN PipeRd(n - 2) ELSE STDIN_FILENO

\* output_fd with the bound of the loop off by one: the last stage is given a
\* pipe as well
output_fd_last_piped(s, n) == IF s < n THEN PipeWr(s) ELSE STDOUT_FILENO

\* int output_fd of stage s of n
output_fd(s, n) == IF s < n - 1 THEN PipeWr(s) ELSE STDOUT_FILENO

\* lush_execute_pipeline up to the loop that creates the pipes
lush_execute_pipeline ==
    /\ pc = "lush_execute_pipeline"
    /\ IF ArgStr(Entry(0, 0)) = <<>>
       THEN \* no command given
            /\ rc' = 1
            /\ pc' = "ret"
       ELSE /\ pc' = IF 0 < num_commands - 1 THEN "pipe" ELSE "fork"
            /\ UNCHANGED rc
    /\ i' = 0
    /\ UNCHANGED editvars
    /\ UNCHANGED scriptvars
    /\ UNCHANGED <<tokvars, off, num_commands, frames, builtin, fds, opened,
                   closelog, children, pipebuf, out, cwd, exit_status, fault>>

\* one turn of the loop that creates the pipes: pipe(pipes[i]) opens both
\* ends, or fails and the function returns 0
CreatePipe ==
    /\ pc = "pipe"
    /\ \E ok \in BOOLEAN :
          IF ok
          THEN /\ fds' = fds \cup {PipeRd(i), PipeWr(i)}
               /\ opened' = opened \cup {PipeRd(i), PipeWr(i)}
               /\ pipebuf' = Append(pipebuf, 0)
               /\ IF i + 1 < num_commands - 1
                  THEN pc' = "pipe" /\ i' = i + 1
                  ELSE pc' = "fork" /\ i' = 0
               /\ UNCHANGED <<rc, out>>
          ELSE /\ out' = Append(out, Shell("pipe"))
               /\ rc' = 0
               /\ pc' = "ret"
               /\ UNCHANGED <<i, fds, opened, pipebuf>>
    /\ UNCHANGED editvars
    /\ UNCHANGED scriptvars
    /\ UNCHANGED <<tokvars, off, num_commands, frames, builtin, closelog,
                   children, cwd, exit_status, fault>>

\* lush_execute_command(commands[i], input_fd, output_fd): fork() makes the
\* child, which inherits every descriptor open in the shell, or fails and the
\* shell exits
Fork ==
    /\ pc = "fork"
    /\ \E ok \in BOOLEAN :
          IF ok
          THEN /\ children' = Append(children,
                      [stage |-> i,
                       nullargs |-> ~HasStage(i),
                       argv |-> IF HasStage(i) THEN ExecArgv(i) ELSE <<>>,
                       in |-> input_fd(i, num_commands),
                       out |-> output_fd(i, num_commands),
                       inh |-> fds,
                       st |-> "forked"])
               /\ pc' = "wait"
               /\ UNCHANGED <<out, exit_status>>
          ELSE /\ out' = Append(out, Shell("fork"))
               /\ pc' = "exited"
               /\ exit_status' = 1
               /\ UNCHANGED children
    /\ UNCHANGED editvars
    /\ UNCHANGED scriptvars
    /\ UNCHANGED <<tokvars, off, num_commands, frames, builtin, rc, i, fds,
                   opened, closelog, pipebuf, cwd, fault>>

\* the child of lush_execute_command: the redirections, then execvp.  With
\* args == NULL the read of args[0] is undefined: the child is killed or ends
\* some other way, and no program runs.  When execvp fails the child exits
\* with failure.
ChildExec(c) ==
    /\ children[c].st = "forked"
    /\ \E res \in {"running", "exited", "signaled"} :
          /\ children[c].nullargs => res # "running"
          /\ ~children[c].nullargs => res # "signaled"
          /\ (children[c].argv = <<>> \/ children[c].argv[1] = <<>>)
                => res # "running"
          /\ children' = [children EXCEPT ![c].st = res]
    /\ UNCHANGED editvars
    /\ UNCHANGED scriptvars
    /\ UNCHANGED <<pc, tokvars, off, num_commands, frames, builtin, rc, i,
                   fds, opened, closelog, pipebuf, out, cwd, exit_status,
                   fault>>

\* the program of stage c writes one unit to the pipe that is its standard
\* output: the pipe takes it while it has room, and the write blocks while
\* the pipe is full
ChildWrite(c) ==
    /\ children[c].st \in {"running", "blocked"}
    /\ children[c].out # STDOUT_FILENO
    /\ IF pipebuf[children[c].out.pipe + 1] < PipeCap
       THEN /\ pipebuf' = [pipebuf EXCEPT ![children[c].out.pipe + 1] = @ + 1]
            /\ children' = [children EXCEPT ![c].st = "running"]
       ELSE /\ children' = [children EXCEPT ![c].st = "blocked"]
            /\ UNCHANGED pipebuf
    /\ UNCHANGED editvars
    /\ UNCHANGED scriptvars
    /\ UNCHANGED <<pc, tokvars, off, num_commands, frames, builtin, rc, i,
                   fds, opened, closelog, out, cwd, exit_status, fault>>

\* the program of stage c reads one unit from the pipe that is its standard
\* input
ChildRead(c) ==
    /\ children[c].st = "running"
    /\ children[c].in # STDIN_FILENO
    /\ pipebuf[children[c].in.pipe + 1] > 0
    /\ pipebuf' = [pipebuf EXCEPT ![children[c].in.pipe + 1] = @ - 1]
    /\ UNCHANGED editvars
    /\ UNCHANGED scriptvars
    /\ UNCHANGED <<pc, tokvars, off, num_commands, frames, builtin, rc, i,
                   fds, opened, closelog, children, out, cwd, exit_status,
                   fault>>

\* the program of a stage ends: it exits, unless it is inside a write that
\* blocks, or a signal kills it
ChildEnd(c) ==
    /\ children[c].st \in {"running", "blocked"}
    /\ \E how \in {"exited", "signaled"} :
          /\ how = "exited" => children[c].st = "running"
          /\ children' = [children EXCEPT ![c].st = how]
    /\ out' = IF children[c].out = STDOUT_FILENO
              THEN Append(out, Program(children[c].stage))
              ELSE out
    /\ UNCHANGED editvars
    /\ UNCHANGED scriptvars
    /\ UNCHANGED <<pc, tokvars, off, num_commands, frames, builtin, rc, i,
                   fds, opened, closelog, pipebuf, cwd, exit_status, fault>>

\* a signal stops the program of a stage, and a later one lets it go on
ChildStop(c) ==
    /\ children[c].st \in {"running", "stopped"}
    /\ children' = [children EXCEPT
                       ![c].st = IF @ = "running" THEN "stopped" ELSE "running"]
    /\ UNCHANGED editvars
    /\ UNCHANGED scriptvars
    /\ UNCHANGED <<pc, tokvars, off, num_commands, frames, builtin, rc, i,
                   fds, opened, closelog, pipebuf, out, cwd, exit_status,
                   fault>>

\* waitpid with the loop around it left out: it returns for a stopped child
\* as well, and the function returns into the pipeline
Wait_once ==
    /\ pc = "wait"
    /\ children[Len(children)].st \in {"exited", "signaled", "stopped"}
    /\ IF i < num_commands - 1
       THEN pc' = "close_out" /\ i' = i
       ELSE pc' = "cleanup" /\ i' = 0
    /\ UNCHANGED editvars
    /\ UNCHANGED scriptvars
    /\ UNCHANGED <<tokvars, off, num_commands, frames, builtin, rc, fds,
                   opened, closelog, children, pipebuf, out, cwd, exit_status,
                   fault>>

\* the parent of lush_execute_command: the waitpid loop ends once the child
\* has exited or was killed (a stopped child keeps it looping), and the
\* function returns into the pipeline
Wait ==
    /\ pc = "wait"
    /\ children[Len(children)].st \in {"exited", "signaled"}
    /\ IF i < num_commands - 1
       THEN pc' = "close_out" /\ i' = i
       ELSE pc' = "cleanup" /\ i' = 0
    /\ UNCHANGED editvars
    /\ UNCHANGED scriptvars
    /\ UNCHANGED <<tokvars, off, num_commands, frames, builtin, rc, fds,
                   opened, closelog, children, pipebuf, out, cwd, exit_status,
                   fault>>

\* close(output_fd) left out: the descriptor stays open in the shell
CloseOutput_left_open ==
    /\ pc = "close_out"
    /\ closelog' = Append(closelog, output_fd(i, num_commands))
    /\ i' = i + 1
    /\ pc' = "fork"
    /\ UNCHANGED editvars
    /\ UNCHANGED scriptvars
    /\ UNCHANGED <<tokvars, off, num_commands, frames, builtin, rc, fds,
                   opened, children, pipebuf, out, cwd, exit_status, fault>>

\* close(output_fd); // no longer need to write to this pipe
CloseOutput ==
    /\ pc = "close_out"
    /\ fds' = fds \ {output_fd(i, num_commands)}
    /\ closelog' = Append(closelog, output_fd(i, num_commands))
    /\ i' = i + 1
    /\ pc' = "fork"
    /\ UNCHANGED editvars
    /\ UNCHANGED scriptvars
    /\ UNCHANGED <<tokvars, off, num_commands, frames, builtin, rc, opened,
                   children, pipebuf, out, cwd, exit_status, fault>>

\* one turn of the loop that closes the pipes, and the return after it
ClosePipes ==
    /\ pc = "cleanup"
    /\ IF i < num_commands - 1
       THEN /\ fds' = fds \ {PipeRd(i), PipeWr(i)}
            /\ closelog' = closelog \o <<PipeRd(i), PipeWr(i)>>
            /\ i' = i + 1
            /\ UNCHANGED <<pc, rc>>
       ELSE /\ rc' = 1
            /\ pc' = "ret"
            /\ UNCHANGED <<i, fds, closelog>>
    /\ UNCHANGED editvars
    /\ UNCHANGED scriptvars
    /\ UNCHANGED <<tokvars, off, num_commands, frames, builtin, opened,
                   children, pipebuf, out, cwd, exit_status, fault>>

\* ------------------------------------------------------------------------
\* The specification
\* ------------------------------------------------------------------------

Next ==
    \/ EnterReadLine
    \/ ReadLine
    \/ CheckLine
    \/ SplitPipes
    \/ SplitArgs
    \/ Dispatch
    \/ MainReturn
    \/ FreeLine
    \/ lush_run
    \/ lush_cd
    \/ lush_help
    \/ lush_exit
    \/ lush_time
    \/ lush_time_return
    \/ lush_lush
    \/ l_debug
    \/ l_execute_command
    \/ ExecReturn
    \/ ScriptEnd
    \/ lush_execute_pipeline
    \/ CreatePipe
    \/ Fork
    \/ \E c \in 1..Len(children) : ChildExec(c)
    \/ \E c \in 1..Len(children) : ChildWrite(c)
    \/ \E c \in 1..Len(children) : ChildRead(c)
    \/ \E c \in 1..Len(children) : ChildEnd(c)
    \/ \E c \in 1..Len(children) : ChildStop(c)
    \/ Wait
    \/ CloseOutput
    \/ ClosePipes

Spec == Init /\ [][Next]_vars

\* ------------------------------------------------------------------------
\* lush_read_line: the loop that reads the keys
\* ------------------------------------------------------------------------

\* #define BUFFER_SIZE 1024
BUFFER_SIZE == 1024

\* the byte buffer[pos] = c stores when getchar has returned EOF
EOFBYTE == "\\377"

\* the buffer of lush_read_line, calloc(BUFFER_SIZE, sizeof(char)), after n
\* times the key a
TypedBuffer(n) == [p \in 0..(BUFFER_SIZE - 1) |-> IF p < n THEN "a" ELSE NUL]

\* the buffer lengths the loop is followed from: the empty buffer the
\* function starts with, and the last two lengths the buffer has room for
StartLengths == {0, BUFFER_SIZE - 2, BUFFER_SIZE - 1}

\* strlen(&buffer[p]): the distance to the first terminator at or after p
strlen(m, p) ==
    (CHOOSE q \in p..(BUFFER_SIZE - 1) :
        m[q] = NUL /\ \A r \in p..(q - 1) : m[r] # NUL) - p

\* memmove(&buffer[dst], &buffer[src], n) inside the buffer
memmove(m, dst, src, n) ==
    [p \in DOMAIN m |->
        IF dst <= p /\ p < dst + n THEN m[p - dst + src] ELSE m[p]]

\* the string the buffer holds, which lush_read_line returns
BufferText(m) == [k \in 1..strlen(m, 0) |-> m[k - 1]]

\* the loop is at its getchar and is followed for another turn
AtGetchar == pc = "lush_read_line" /\ keys < MaxKeys

\* the last branch of the loop, for a c that is no escape, backspace or
\* newline.  The memmove writes strlen(&buffer[pos]) + 1 bytes from
\* buffer[pos + 1] on; the last of them is outside the buffer when the buffer
\* is full and the cursor is not at its end.
InsertBranch(c) ==
    /\ keys' = keys + 1
    /\ IF pos < BUFFER_SIZE - 1
       THEN IF pos + strlen(mem, pos) + 1 > BUFFER_SIZE - 1
            THEN /\ pc' = "fault"
                 /\ fault' = "lush_read_line writes past the line buffer"
                 /\ UNCHANGED <<mem, pos>>
            ELSE /\ mem' = Wr(memmove(mem, pos + 1, pos,
                                      strlen(mem, pos) + 1), pos, c)
                 /\ pos' = pos + 1
                 /\ UNCHANGED <<pc, fault>>
       ELSE UNCHANGED <<mem, pos, pc, fault>>
    /\ UNCHANGED scriptvars
    /\ UNCHANGED <<line, under, commands, args, status, off, num_commands,
                   frames, builtin, rc, pipevars, out, cwd, exit_status,
                   termios, orig_termios>>

\* getchar returns a character that is inserted
InsertChar ==
    /\ AtGetchar
    /\ ~eof
    /\ \E c \in Alphabet : InsertBranch(c)
    /\ UNCHANGED eof

\* getchar returns EOF, which is none of the characters the loop tests for:
\* it is stored like a typed character and the loop goes on
EndOfInput ==
    /\ AtGetchar
    /\ eof' = TRUE
    /\ InsertBranch(EOFBYTE)

\* } else if (c == '\177') { // backspace
Backspace ==
    /\ AtGetchar
    /\ ~eof
    /\ keys' = keys + 1
    /\ IF pos > 0
       THEN /\ mem' = memmove(mem, pos - 1, pos, strlen(mem, pos) + 1)
            /\ pos' = pos - 1
       ELSE UNCHANGED <<mem, pos>>
    /\ UNCHANGED scriptvars
    /\ UNCHANGED <<pc, line, under, commands, args, status, off, num_commands,
                   frames, builtin, rc, pipevars, out, cwd, exit_status, fault,
                   termios, orig_termios, eof>>

\* case 'C': // right arrow
RightArrow ==
    /\ AtGetchar
    /\ ~eof
    /\ keys' = keys + 1
    /\ pos' = IF pos < strlen(mem, 0) THEN pos + 1 ELSE pos
    /\ UNCHANGED scriptvars
    /\ UNCHANGED <<pc, tokvars, off, num_commands, frames, builtin, rc,
                   pipevars, out, cwd, exit_status, fault, termios,
                   orig_termios, eof>>

\* case 'D': // left arrow
LeftArrow ==
    /\ AtGetchar
    /\ ~eof
    /\ keys' = keys + 1
    /\ pos' = IF pos > 0 THEN pos - 1 ELSE pos
    /\ UNCHANGED scriptvars
    /\ UNCHANGED <<pc, tokvars, off, num_commands, frames, builtin, rc,
                   pipevars, out, cwd, exit_status, fault, termios,
                   orig_termios, eof>>

\* case '3': // delete, followed by '~'
Delete ==
    /\ AtGetchar
    /\ ~eof
    /\ keys' = keys + 1
    /\ mem' = IF pos < strlen(mem, 0)
              THEN memmove(mem, pos, pos + 1, strlen(mem, pos + 1) + 1)
              ELSE mem
    /\ UNCHANGED scriptvars
    /\ UNCHANGED <<pc, line, under, commands, args, status, off, num_commands,
                   frames, builtin, rc, pipevars, out, cwd, exit_status, fault,
                   termios, orig_termios, pos, eof>>

\* any other escape sequence: default: break;
OtherEscape ==
    /\ AtGetchar
    /\ ~eof
    /\ keys' = keys + 1
    /\ UNCHANGED scriptvars
    /\ UNCHANGED <<pc, tokvars, off, num_commands, frames, builtin, rc,
                   pipevars, out, cwd, exit_status, fault, termios,
                   orig_termios, pos, eof>>

\* } else if (c == '\n') { break; } then reset_terminal_mode and return buffer
Submit ==
    /\ pc = "lush_read_line"
    /\ ~eof
    /\ line' = BufferText(mem)
    /\ termios' = reset_terminal_mode(orig_termios)
    /\ pc' = "read"
    /\ UNCHANGED scriptvars
    /\ UNCHANGED <<mem, under, commands, args, status, off, num_commands,
                   frames, builtin, rc, pipevars, out, cwd, exit_status, fault,
                   orig_termios, pos, eof, keys>>

\* lush_read_line inside its loop, with a buffer of n characters typed
EditInit ==
    /\ pc = "lush_read_line"
    /\ line = <<>>
    /\ \E n \in StartLengths :
          /\ mem = TypedBuffer(n)
          /\ pos = n
    /\ under = FALSE
    /\ commands = <<>>
    /\ args = <<>>
    /\ status = 0
    /\ off = 0
    /\ num_commands = 0
    /\ frames = 0
    /\ builtin = <<>>
    /\ rc = 1
    /\ i = 0
    /\ fds = {}
    /\ opened = {}
    /\ closelog = <<>>
    /\ children = <<>>
    /\ pipebuf = <<>>
    /\ out = <<>>
    /\ cwd = Dir("start", <<>>)
    /\ exit_status = -1
    /\ fault = "none"
    /\ termios = set_raw_mode(Cooked)
    /\ orig_termios = Cooked
    /\ eof = FALSE
    /\ keys = 0
    /\ saved = <<>>
    /\ debug_mode = FALSE
    /\ history = <<>>
    /\ debuglog = <<>>
    /\ execs = 0

EditNext ==
    \/ InsertChar
    \/ EndOfInput
    \/ Backspace
    \/ RightArrow
    \/ LeftArrow
    \/ Delete
    \/ OtherEscape
    \/ Submit

EditSpec == EditInit /\ [][EditNext]_vars

\* ------------------------------------------------------------------------
\* The tokenizer on long lines.  A line holds up to BUFFER_SIZE - 1
\* characters, which is room for far more stages and arguments than the
\* arrays of the tokenizer have slots.  TokSpec starts where lush_read_line
\* has returned such a line at the first prompt and follows the two calls of
\* the tokenizer.
\* ------------------------------------------------------------------------

\* the longest lines have this many stages or arguments more than the array
\* has slots
MaxOver == 2

\* the line a|a|..|a of n stages
ManyStages(n) == [k \in 1..(2 * n - 1) |-> IF k % 2 = 1 THEN "a" ELSE PIPE]

\* the line a a .. a of n arguments
ManyArgs(n) == [k \in 1..(2 * n - 1) |-> IF k % 2 = 1 THEN "a" ELSE SPACE]

\* the lines typed: every number of stages and of arguments up to MaxOver
\* more than the slots
LongLines ==
    {ManyStages(n) : n \in 1..(CommandsSlots + MaxOver)}
       \cup {ManyArgs(n) : n \in 1..(ArgsSlots + MaxOver)}

TokInit ==
    /\ pc = "split_pipes"
    /\ \E text \in LongLines :
          /\ Len(text) <= BUFFER_SIZE - 1
          /\ line = text
          /\ mem = LineBuffer(text)
    /\ under = FALSE
    /\ commands = <<>>
    /\ args = <<>>
    /\ status = 0
    /\ off = 0
    /\ num_commands = 0
    /\ frames = 0
    /\ builtin = <<>>
    /\ rc = 1
    /\ i = 0
    /\ fds = {}
    /\ opened = {}
    /\ closelog = <<>>
    /\ children = <<>>
    /\ pipebuf = <<>>
    /\ out = <<>>
    /\ cwd = Dir("start", <<>>)
    /\ exit_status = -1
    /\ fault = "none"
    /\ termios = Cooked
    /\ orig_termios = Cooked
    /\ pos = 0
    /\ eof = FALSE
    /\ keys = 0
    /\ saved = <<>>
    /\ debug_mode = FALSE
    /\ history = <<>>
    /\ debuglog = <<>>
    /\ execs = 0

TokNext ==
    \/ SplitPipes
    \/ SplitArgs

TokSpec == TokInit /\ [][TokNext]_vars

\* ------------------------------------------------------------------------
\* What a line is expected to yield
\* ------------------------------------------------------------------------

RECURSIVE Count(_, _)
\* how often the character c stands in text
Count(text, c) ==
    IF text = <<>> THEN 0
    ELSE (IF text[1] = c THEN 1 ELSE 0) + Count(Tail(text), c)

RECURSIVE Unmatched(_, _)
\* the number of stages of text (the parts between pipe characters) that hold
\* an odd number of quote characters, open telling whether a quote is open
Unmatched(text, open) ==
    IF text = <<>> THEN (IF open THEN 1 ELSE 0)
    ELSE IF text[1] = PIPE
         THEN (IF open THEN 1 ELSE 0) + Unmatched(Tail(text), FALSE)
         ELSE Unmatched(Tail(text), IF text[1] = QUOTE THEN ~open ELSE open)

RECURSIVE PipeInQuotes(_, _)
\* some pipe character of text stands between an opening quote and its close
PipeInQuotes(text, open) ==
    IF text = <<>> THEN FALSE
    ELSE IF text[1] = PIPE /\ open THEN TRUE
         ELSE PipeInQuotes(Tail(text), IF text[1] = QUOTE THEN ~open ELSE open)

RECURSIVE Runs(_, _)
\* the maximal runs of non-space characters of text, in order; run is the run
\* being read
Runs(text, run) ==
    IF text = <<>> THEN (IF run = <<>> THEN <<>> ELSE <<run>>)
    ELSE IF text[1] = SPACE
         THEN (IF run = <<>> THEN <<>> ELSE <<run>>) \o Runs(Tail(text), <<>>)
         ELSE Runs(Tail(text), Append(run, text[1]))

\* the token r is $name with a name
IsVar(r) == Len(r) > 1 /\ r[1] = DOLLAR

RECURSIVE Substitute(_)
\* the tokens rs with each $name replaced by its value when the variable is
\* set and left out when it is unset
Substitute(rs) ==
    IF rs = <<>> THEN <<>>
    ELSE (IF ~IsVar(rs[1]) THEN <<rs[1]>>
          ELSE IF getenv(Tail(rs[1])) = NULL THEN <<>>
          ELSE <<getenv(Tail(rs[1])).v>>) \o Substitute(Tail(rs))

\* the line is plain words and $name tokens of the variable name only
OnlyVar(text, name) ==
    /\ Count(text, QUOTE) = 0
    /\ Count(text, PIPE) = 0
    /\ \E k \in 1..Len(Runs(text, <<>>)) : Runs(text, <<>>)[k] = <<DOLLAR>> \o name
    /\ \A k \in 1..Len(Runs(text, <<>>)) :
          Count(Runs(text, <<>>)[k], DOLLAR) > 0
             => Runs(text, <<>>)[k] = <<DOLLAR>> \o name

\* the strings of the argument vector of stage s as lush_split_args built it
ArgStrings(s) == [k \in 1..Len(args[s + 1]) |-> ArgStr(args[s + 1][k])]

\* some slot of the argument vector of stage s holds NULL
HasNullArg(s) == \E k \in 1..Len(args[s + 1]) : args[s + 1][k] = NULL

\* lush_split_args has returned and main has not yet looked at its status
Tokenized == pc = "dispatch"

\* ------------------------------------------------------------------------
\* The claims
\* ------------------------------------------------------------------------

\* C1: a line with exactly one unmatched double-quote makes lush_split_args
\* report status -1, and lush_run is not called for it.
C1_UnmatchedQuoteIsError ==
    Unmatched(line, FALSE) = 1
       => /\ Tokenized => status = -1
          /\ pc # "lush_run"

\* C2: a line with k pipe characters, none of them inside quotes, that parses
\* without a quote error yields exactly k + 1 stages.
C2_StagesArePipesPlusOne ==
    (Tokenized /\ ~PipeInQuotes(line, FALSE) /\ status # -1)
       => status = Count(line, PIPE) + 1 /\ Len(args) = Count(line, PIPE) + 1

\* C3: in a line of plain words and $a tokens, a being set, the argument
\* vector is the words of the line in order with each $a replaced by the value
\* of a: nothing is lost and nothing is added.
C3_SetVariableIsSubstituted ==
    (Tokenized /\ OnlyVar(line, <<"a">>))
       => /\ status = 1
          /\ ~HasNullArg(0)
          /\ ArgStrings(0) = Substitute(Runs(line, <<>>))

\* C4: in a line of plain words and $b tokens, b being unset, the argument
\* vector has no NULL entry and is the words of the line with the $b tokens
\* deleted, and that is the vector process-exec is given.
C4_UnsetVariableIsSkipped ==
    (Tokenized /\ OnlyVar(line, <<"b">>))
       => /\ status = 1
          /\ ~HasNullArg(0)
          /\ ArgStrings(0) = Substitute(Runs(line, <<>>))
          /\ ExecArgv(0) = Substitute(Runs(line, <<>>))

\* C5: a line with no pipe, no quote and no $ yields one stage whose
\* arguments are the maximal runs of non-whitespace characters of the line, in
\* order, none of them empty.
C5_WhitespaceSplitting ==
    (Tokenized /\ Count(line, PIPE) = 0 /\ Count(line, QUOTE) = 0
       /\ Count(line, DOLLAR) = 0)
       => /\ status = 1
          /\ ~HasNullArg(0)
          /\ ArgStrings(0) = Runs(line, <<>>)

\* C6: lush_run is always handed at least one stage, and never reads the
\* first stage of a pipeline that has none.
C6_RunHasAStage ==
    /\ pc = "lush_run" => Len(args) >= 1
    /\ fault # "lush_run reads commands[0][0] through NULL"

\* lush_execute_pipeline has run its last command and is closing the pipes, or
\* has returned after doing so
PipelineCompleted ==
    \/ pc = "cleanup"
    \/ pc \in {"ret", "free"} /\ children # <<>>

\* C7: lush_execute_pipeline called for n stages (n is the count it is given,
\* which is the number of stages when main calls) forks the stages in order;
\* stage s reads standard input when s = 0 and else the read end of pipe
\* s - 1, and writes the write end of pipe s when s < n - 1 and else standard
\* output, so each stage but the last writes the pipe the next stage reads and
\* only the last writes standard output; on completion exactly n children
\* have been forked.
C7_PipelineWiring ==
    /\ \A c \in 1..Len(children) :
          /\ children[c].stage = c - 1
          /\ c <= num_commands
          /\ children[c].in =
                IF c = 1 THEN STDIN_FILENO ELSE [pipe |-> c - 2, end |-> "r"]
          /\ children[c].out =
                IF c < num_commands THEN [pipe |-> c - 1, end |-> "w"]
                ELSE STDOUT_FILENO
          /\ c > 1 => children[c - 1].out.pipe = children[c].in.pipe
          /\ children[c].out = STDOUT_FILENO <=> c = num_commands
    /\ PipelineCompleted => Len(children) = num_commands
    /\ children # <<>> => ArgStr(Entry(0, 0)) # <<>>
    /\ (children # <<>> /\ builtin = <<>>) => num_commands = Len(args)

\* a pipeline of three stages has completed: three children, the last one
\* writing standard output
C7_Witness ==
    /\ pc = "ret"
    /\ rc = 1
    /\ num_commands = 3
    /\ Len(args) = 3
    /\ Len(children) = 3
    /\ children[3].out = STDOUT_FILENO
    /\ children[2].st = "exited"

\* C8: lush_time hands lush_run the stages that follow `time` with their
\* count, so the last of them writes standard output, and the Time line is
\* printed once they have finished.
C8_TimeRunsTheRest ==
    /\ (pc = "lush_run" /\ frames > 0 /\ Entry(0, 0) # NULL)
          => num_commands = Len(args)
    /\ (frames > 0 /\ PipelineCompleted)
          => /\ Len(children) = Len(args)
             /\ children[Len(children)].out = STDOUT_FILENO

\* C9: when lush_execute_pipeline has returned, on whichever path, no pipe
\* descriptor it opened is still open in the shell process.
C9_NoDescriptorLeftOpen ==
    pc = "ret" => opened \cap fds = {}

\* C10: the exit builtin does not end the process the way a fatal error does:
\* the shell never terminates through exit(1) of main because lush_exit
\* returned.
C10_ExitIsGraceful ==
    (pc = "exited" /\ builtin # <<>>)
       => builtin[Len(builtin)] # "lush_exit"

\* the names of the builtins
BuiltinNames == {builtin_strs[n] : n \in 1..lush_num_builtins}

\* where the shell is while lush_execute_pipeline runs
PipelinePcs ==
    {"lush_execute_pipeline", "pipe", "fork", "wait", "close_out", "cleanup"}

\* C11: when the first argument of the first stage is the name of a builtin,
\* lush_run calls the handler of that builtin and no program of that name is
\* forked; lush_execute_pipeline gets the pipeline only when no builtin
\* matches.
C11_BuiltinsAreNotForked ==
    /\ \A n \in 1..lush_num_builtins :
          pc = builtin_func[n] =>
             /\ HasStage(0)
             /\ Entry(0, 0) # NULL
             /\ ArgStr(Entry(0, 0)) = builtin_strs[n]
             /\ builtin # <<>>
             /\ builtin[Len(builtin)] = builtin_func[n]
    /\ pc \in PipelinePcs =>
          /\ HasStage(0)
          /\ Entry(0, 0) # NULL
          /\ ArgStr(Entry(0, 0)) \notin BuiltinNames
    /\ \A c \in 1..Len(children) :
          (children[c].stage = 0 /\ children[c].argv # <<>>) =>
             children[c].argv[1] \notin BuiltinNames

\* time cd: lush_time has handed the rest of the line to lush_run, which
\* calls the handler of cd; nothing was forked
C11_Witness ==
    /\ pc = "lush_cd"
    /\ builtin = <<"lush_time", "lush_cd">>
    /\ ArgStr(Entry(0, 0)) = cd
    /\ children = <<>>

\* cd is about to run with a path that realpath cannot resolve
CdUnresolvable ==
    /\ pc = "lush_cd"
    /\ Entry(0, 1) # NULL
    /\ realpath(ArgStr(Entry(0, 1))) = Dir("none", <<>>)

\* C12: cd with a path that cannot be resolved leaves the working directory
\* as it was and reports the failure, and lush_run returns a value with which
\* main goes on to the next prompt instead of exiting.
C12_FailedCdKeepsTheShell ==
    [][CdUnresolvable =>
          /\ cwd' = cwd
          /\ Len(out') = Len(out) + 1
          /\ rc' # 0]_vars

\* the terminal is in raw mode: canonical mode and echo are both off
RawMode == termios \cap {"ICANON", "ECHO"} = {}

\* the process forked for a stage has not ended
Alive(c) == children[c].st \in {"forked", "running", "blocked", "stopped"}

\* some process forked for the line has not ended
SomeChildAlive == \E c \in 1..Len(children) : Alive(c)

C14_EndOfInputReturnsEmptyLine ==
    eof => (pc = "read" /\ line = <<>>)

\* C15: whatever keys were read, the buffer of lush_read_line holds a string
\* of at most BUFFER_SIZE - 1 characters: no insert, wherever the cursor is,
\* writes outside the buffer.
C15_BufferNeverOverflows ==
    /\ fault # "lush_read_line writes past the line buffer"
    /\ strlen(mem, 0) <= BUFFER_SIZE - 1

\* execute_command is about to hand its line to the history and to return
ExecReturning == pc = "free" /\ saved # <<>>

\* C16: the line exec gives to lush_push_history, and the line of the
\* Executed: message, is the command line as the script submitted it; the
\* terminators the tokenizer has written into it do not shorten it.
C16_HistoryGetsTheRawLine ==
    [][ExecReturning =>
          /\ history' = Append(history, line)
          /\ debug_mode =>
                debuglog' = Append(debuglog, [line |-> line,
                                              rc |-> status # -1])]_vars

\* the live processes whose standard input is the read end of pipe k
Readers(k) == {d \in 1..Len(children) : Alive(d) /\ children[d].in = PipeRd(k)}

\* C17: a stage that has more to write than its pipe holds is not left
\* blocked: while the shell waits for a stage that is inside a write to a
\* full pipe, the next stage is alive to drain that pipe.
C17_BlockedWriterIsDrained ==
    \A c \in 1..Len(children) :
       (pc = "wait" /\ children[c].st = "blocked") =>
          Readers(children[c].out.pipe) # {}

\* C18: the shell forks the process of a stage only when the process of the
\* stage before has exited or was killed: at most one of the processes is
\* alive, and it is the last one forked.
C18_OneStageAtATime ==
    /\ Cardinality({c \in 1..Len(children) : Alive(c)}) <= 1
    /\ \A c \in 1..(Len(children) - 1) : ~Alive(c)
    /\ pc = "fork" => ~SomeChildAlive

\* the second stage of a pipeline runs and the first has exited
C18_Witness ==
    /\ Len(children) = 2
    /\ children[1].st = "exited"
    /\ children[2].st = "running"
    /\ children[2].stage = 1

\* C19: while the process of a stage is alive with a pipe as its standard
\* input, no write end of that pipe is open, in the shell or in a live
\* process that inherited it: the reader gets end-of-file after the data.
C19_ReaderSeesEndOfFile ==
    \A c \in 1..Len(children) :
       (Alive(c) /\ children[c].in # STDIN_FILENO) =>
          /\ PipeWr(children[c].in.pipe) \notin fds
          /\ \A d \in 1..Len(children) :
                Alive(d) => PipeWr(children[c].in.pipe) \notin children[d].inh

\* the second stage reads pipe 0, which holds data of the first stage, and
\* the shell has opened and closed the write end of pipe 0
C19_Witness ==
    /\ Len(children) = 2
    /\ children[2].st = "running"
    /\ children[2].in = PipeRd(0)
    /\ pipebuf[1] = PipeCap
    /\ PipeWr(0) \in opened \ fds

\* C20: the shell passes no pipe descriptor to close twice during one call
\* of lush_execute_pipeline.
C20_EachDescriptorClosedOnce ==
    \A a, b \in 1..Len(closelog) : a # b => closelog[a] # closelog[b]

RECURSIVE RemovePairs(_)
\* text with its empty quote pairs taken out
RemovePairs(text) ==
    IF Len(text) < 2 THEN text
    ELSE IF text[1] = QUOTE /\ text[2] = QUOTE
         THEN RemovePairs(SubSeq(text, 3, Len(text)))
         ELSE <<text[1]>> \o RemovePairs(Tail(text))

\* the argument strings of the first stage of text as lush_split_pipes and
\* lush_split_args build them; a text with no stage has none
StageVector(text) ==
    LET p == lush_split_pipes(LineBuffer(text), "h")
        r == lush_split_args(p.mem, p.commands)
    IN  IF r.command_args = <<>> THEN <<>>
        ELSE [k \in 1..Len(r.command_args[1]) |->
                 IF r.command_args[1][k].k = "buf"
                 THEN CStr(r.mem, r.command_args[1][k].p)
                 ELSE r.command_args[1][k].v]

\* the line is one stage of plain words and empty quote pairs, with a pair
WordsAndPairs(text) ==
    /\ Count(text, PIPE) = 0
    /\ Count(text, DOLLAR) = 0
    /\ Count(text, QUOTE) > 0
    /\ Count(RemovePairs(text), QUOTE) = 0

\* C21: an empty quote pair contributes no argument: the argument vector of a
\* stage of words and empty quote pairs is the vector of the same stage with
\* the pairs removed, and none of its arguments is the empty string.
C21_EmptyPairAddsNothing ==
    (Tokenized /\ saved = <<>> /\ WordsAndPairs(line))
       => /\ status = 1
          /\ ArgStrings(0) = StageVector(RemovePairs(line))
          /\ \A k \in 1..Len(ArgStrings(0)) : ArgStrings(0)[k] # <<>>

\* the offset of the terminator of stage s as lush_split_pipes left it: the
\* first pipe character of the line at or after the start of the stage, or
\* the end of the line
StageTerminator(s) ==
    CHOOSE e \in commands[s + 1]..Len(line) :
       /\ e = Len(line) \/ line[e + 1] = PIPE
       /\ \A d \in commands[s + 1]..(e - 1) : line[d + 1] # PIPE

\* the argument e of stage s lies in the text of stage s
InStage(s, e) ==
    e.k = "buf" => /\ commands[s + 1] <= e.p
                   /\ e.p + Len(CStr(mem, e.p)) <= StageTerminator(s)

\* C22: the scan of a stage in lush_split_args never moves past the
\* terminator of the stage: it reads no byte behind the string it was given,
\* and every argument of stage s that points into the line lies between the
\* start of stage s and its terminator.
C22_ScanStaysInStage ==
    /\ fault # "lush_split_args reads past the string of the script"
    /\ Tokenized
          => \A s \in 0..(Len(args) - 1) :
                \A k \in 1..Len(args[s + 1]) : InStage(s, args[s + 1][k])

\* the undefined behaviour the tokenizer runs into at the end of an array
ArrayFaults ==
    {"lush_split_pipes writes past the commands array",
     "lush_split_args reads past the commands array",
     "lush_split_args writes past an args array"}

\* C23: the tokenizer never writes outside its arrays and never leaves one
\* without its NULL terminator: lush_split_pipes stores at most
\* CommandsSlots - 1 stage pointers, lush_split_args at most ArgsSlots - 1
\* arguments per stage, and no line makes either of them run over the end of
\* an array.
C23_TokenizerStaysInItsArrays ==
    /\ fault \notin ArrayFaults
    /\ pc \in {"split_args", "dispatch"} => Len(commands) <= CommandsSlots - 1
    /\ Tokenized
          => \A s \in 0..(Len(args) - 1) : Len(args[s + 1]) <= ArgsSlots - 1

====
